---- MODULE Spec2Model ----
(***************************************************************************)
(* Model of vt_econ_dashboard.py: the cached fetch adapters, the key       *)
(* normalisation, the pandas merges that build the unified record set and  *)
(* the two rendering steps of one Streamlit script run.                    *)
(*                                                                         *)
(* Representation.                                                         *)
(*   - A text value on which the code does character work (names) is a     *)
(*     sequence of one-character strings; an opaque text value (codes,     *)
(*     urls) is a TLA+ string, concatenated with \o.                       *)
(*   - A cell of a data frame is None (NaN / None) or Some(v).             *)
(*   - A data frame is [cols |-> set of column names, rows |-> sequence of *)
(*     functions from cols to cells].                                      *)
(***************************************************************************)
EXTENDS Integers, Sequences, FiniteSets, TLC

\* ---------------------------------------------------------------- bounds
MaxParts == 4
MaxRegions == 2
MaxProfRows == 2
MaxDetlRows == 1
MaxAnnRows == 1
MaxRuns == 2
MaxTicks == 2
MaxYearsBack == 1
TickSeconds == 1800

\* ------------------------------------------------------ program constants
STATE_FIPS == "50"
DEFAULT_ACS_YEAR == 2023
ACCEPTABLE_YEARS == 2017..2023
TTL == 60 * 60
ACS_VARS_DETAILED == {"B19013_001E"}
ACS_VARS_PROFILE == {"DP03_0009PE", "DP02_0068PE", "DP03_0119PE"}

\* ------------------------------------------------------------------ cells
None == <<>>
Some(v) == <<v>>
NotNa(c) == c # None

\* ------------------------------------------------------- character strings
UpperChars == <<"A", "B", "C", "D", "E", "F", "G", "H", "I", "J", "K", "L", "M",
                "N", "O", "P", "Q", "R", "S", "T", "U", "V", "W", "X", "Y", "Z">>
LowerChars == <<"a", "b", "c", "d", "e", "f", "g", "h", "i", "j", "k", "l", "m",
                "n", "o", "p", "q", "r", "s", "t", "u", "v", "w", "x", "y", "z">>

\* str.lower on one character
LowerChar(c) ==
    IF \E i \in 1..26 : UpperChars[i] = c
    THEN LowerChars[CHOOSE i \in 1..26 : UpperChars[i] = c]
    ELSE c

\* Series.str.lower
StrLower(s) == [i \in 1..Len(s) |-> LowerChar(s[i])]

\* whitespace of str.strip and of the regular expression's \s
IsSpace(c) == c \in {" ", "\t", "\n", "\r", "\f"}

\* Series.str.strip
StrStrip(s) ==
    LET keep == {i \in 1..Len(s) : ~IsSpace(s[i])}
        lo == CHOOSE i \in keep : \A j \in keep : i <= j
        hi == CHOOSE i \in keep : \A j \in keep : j <= i
    IN IF keep = {} THEN <<>> ELSE SubSeq(s, lo, hi)

\* the alternation (?:town|city|gore|grant|plantation)
SuffixWords ==
    { <<"t", "o", "w", "n">>, <<"c", "i", "t", "y">>, <<"g", "o", "r", "e">>,
      <<"g", "r", "a", "n", "t">>,
      <<"p", "l", "a", "n", "t", "a", "t", "i", "o", "n">> }

\* the word w stands in s from position j on
WordAt(s, j, w) == j + Len(w) - 1 <= Len(s) /\ SubSeq(s, j, j + Len(w) - 1) = w

\* ,\s+ matches in s from position j on
CommaSpaceAt(s, j) == j + 1 <= Len(s) /\ s[j] = "," /\ IsSpace(s[j + 1])

\* (?:\s+(?:town|city|gore|grant|plantation)),\s+ matches in s from position j on
SuffixCommaAt(s, j) ==
    \E k \in 1..Len(s) :
        /\ \A m \in j..(j + k - 1) : m <= Len(s) /\ IsSpace(s[m])
        /\ \E w \in SuffixWords :
               WordAt(s, j + k, w) /\ CommaSpaceAt(s, j + k + Len(w))

\* the lengths n for which ^(.*?) can take s[1..n] and the rest of the pattern
\* matches behind it (. matches no line break)
MatchEnds(s) ==
    {n \in 0..Len(s) :
        /\ \A m \in 1..n : s[m] # "\n"
        /\ (SuffixCommaAt(s, n + 1) \/ CommaSpaceAt(s, n + 1))}

\* the length the lazy group (.*?) ends up with: the shortest that matches
LazyGroupEnd(s) == CHOOSE n \in MatchEnds(s) : \A m \in MatchEnds(s) : n <= m

\* Series.str.extract(r"^(.*?)(?:\s+(?:town|city|gore|grant|plantation))?,\s+")
\* on one cell: the first group, NaN when the pattern does not match
StrExtract(cell) ==
    IF cell = None \/ MatchEnds(cell[1]) = {}
    THEN None
    ELSE Some(SubSeq(cell[1], 1, LazyGroupEnd(cell[1])))

\* variant: the NAME in lower case, nothing extracted
AcsTownCleanNoExtract(name) == IF name = None THEN None ELSE Some(StrLower(name[1]))

\* acs_temp["town_clean"] of one NAME cell: extract, fillna(NAME), lower
AcsTownClean(name) ==
    LET e == StrExtract(name)
        f == IF e = None THEN name ELSE e
    IN IF f = None THEN None ELSE Some(StrLower(f[1]))

NoneText == <<"N", "o", "n", "e">>

\* astype(str) on one cell of an object column
AsStr(cell) == IF cell = None THEN NoneText ELSE cell[1]

\* bfill(axis=1).iloc[:, 0] over the three cells: the first that is not null
FirstNotNull(a, b, c) == IF NotNa(a) THEN a ELSE IF NotNa(b) THEN b ELSE c

\* gdf["town_clean"] of one region
GdfTownClean(townname, town, name) ==
    StrLower(StrStrip(AsStr(FirstNotNull(townname, town, name))))

\* variant: trimmed only
PolTownCleanNoLower(town) == StrStrip(AsStr(town))

\* df["town_clean"] of one policy link
PolTownClean(town) == StrLower(StrStrip(AsStr(town)))

\* ------------------------------------------------------------ pd.to_numeric
DigitChars == <<"0", "1", "2", "3", "4", "5", "6", "7", "8", "9">>
IsDigit(c) == \E i \in 1..10 : DigitChars[i] = c
DigitVal(c) == (CHOOSE i \in 1..10 : DigitChars[i] = c) - 1

RECURSIVE DigitsVal(_)
DigitsVal(s) ==
    IF s = <<>> THEN 0
    ELSE 10 * DigitsVal(SubSeq(s, 1, Len(s) - 1)) + DigitVal(s[Len(s)])

RECURSIVE DropTrailingZeros(_)
DropTrailingZeros(s) ==
    IF s # <<>> /\ s[Len(s)] = "0"
    THEN DropTrailingZeros(SubSeq(s, 1, Len(s) - 1))
    ELSE s

\* the decimal number a text denotes: [mant, exp] stands for mant / 10^exp, with
\* no trailing zero in the fraction, so that "4.0" and "4" are the same number.
\* Text that denotes no number gives None. (Surrounding white space, exponents,
\* inf and nan are left out: no response of the model has them.)
ParseNumber(text) ==
    LET s == text
        signed == s # <<>> /\ s[1] \in {"-", "+"}
        body == IF signed THEN Tail(s) ELSE s
        dots == {i \in 1..Len(body) : body[i] = "."}
        dot == IF dots = {} THEN Len(body) + 1 ELSE CHOOSE i \in dots : TRUE
        whole == SubSeq(body, 1, dot - 1)
        frac == DropTrailingZeros(SubSeq(body, dot + 1, Len(body)))
        ok == /\ Cardinality(dots) <= 1
              /\ \A i \in 1..Len(body) : i \notin dots => IsDigit(body[i])
              /\ Len(body) - Cardinality(dots) >= 1
        mag == DigitsVal(whole \o frac)
    IN IF ok
       THEN Some([mant |-> IF signed /\ s[1] = "-" THEN 0 - mag ELSE mag,
                  exp |-> Len(frac)])
       ELSE None

\* pd.to_numeric(..., errors="coerce") on one cell: the number the text parses
\* to, NaN for None and for text that does not parse
ToNumeric(cell) == IF cell = None THEN None ELSE ParseNumber(cell[1])

\* ------------------------------------------------------------ data frames
Frame(cols, rows) == [cols |-> cols, rows |-> rows]

\* df[[...]]: the selection of columns (KeyError when one is missing)
HasColumns(df, cols) == cols \subseteq df.cols
Project(df, cols) ==
    Frame(cols, [i \in 1..Len(df.rows) |-> [c \in cols |-> df.rows[i][c]]])

\* df[col] = f(row): a column added or replaced
WithColumn(df, col, F(_)) ==
    Frame(df.cols \cup {col},
          [i \in 1..Len(df.rows) |->
              [c \in df.cols \cup {col} |->
                  IF c = col THEN F(df.rows[i]) ELSE df.rows[i][c]]])

RECURSIVE Flatten(_)
Flatten(ss) == IF ss = <<>> THEN <<>> ELSE Head(ss) \o Flatten(Tail(ss))

\* the right rows whose key equals the left row's key, in the right frame's
\* order (pandas matches a null key with a null key)
Matches(l, R, on) == SelectSeq(R.rows, LAMBDA r : r[on] = l[on])

\* left.merge(right, on=on, how="left"): every left row once per matching right
\* row, and once with nulls when none matches; columns of the same name on both
\* sides, other than the key, get the suffixes _x and _y
Merge(L, R, on) ==
    LET ov == (L.cols \cap R.cols) \ {on}
        OutL(c) == IF c \in ov THEN c \o "_x" ELSE c
        OutR(c) == IF c \in ov THEN c \o "_y" ELSE c
        rcols == R.cols \ {on}
        cols == {OutL(c) : c \in L.cols} \cup {OutR(c) : c \in rcols}
        Cell(l, r, c) ==
            IF \E b \in L.cols : OutL(b) = c
            THEN l[CHOOSE b \in L.cols : OutL(b) = c]
            ELSE IF r = None THEN None
                 ELSE r[1][CHOOSE b \in rcols : OutR(b) = c]
        RowsFor(l) ==
            LET m == Matches(l, R, on)
            IN IF m = <<>>
               THEN << [c \in cols |-> Cell(l, None, c)] >>
               ELSE [i \in 1..Len(m) |-> [c \in cols |-> Cell(l, Some(m[i]), c)]]
    IN Frame(cols, Flatten([i \in 1..Len(L.rows) |-> RowsFor(L.rows[i])]))

\* ------------------------------------------------- boundary adapter (pure)
EnsuredCols ==
    {"TOWNNAME", "TOWN", "NAME", "CNTYNAME", "COUNTY", "CO_NAME", "CO_FIPS",
     "TOWNCODE", "FIPS6", "GEOID"}

\* fetch_vcgi_town_boundaries after the request: the features that have a
\* geometry, one row each with the union of their properties as columns; the
\* ten key columns added as None where the service has none; town_clean and
\* county_clean derived
BuildGdf(features) ==
    LET kept == SelectSeq(features, LAMBDA f : f.geometry # None)
        props == UNION {DOMAIN kept[i].properties : i \in 1..Len(kept)}
        cols == props \cup EnsuredCols \cup {"geometry"}
        base == Frame(cols,
                    [i \in 1..Len(kept) |->
                        [c \in cols |->
                            IF c = "geometry" THEN kept[i].geometry
                            ELSE IF c \in DOMAIN kept[i].properties
                                 THEN kept[i].properties[c]
                                 ELSE None]])
        named == WithColumn(base, "town_clean",
                    LAMBDA r : Some(GdfTownClean(r["TOWNNAME"], r["TOWN"], r["NAME"])))
    IN WithColumn(named, "county_clean",
           LAMBDA r : Some(GdfTownClean(r["CNTYNAME"], r["COUNTY"], r["CO_NAME"])))

\* ----------------------------------------------- statistics adapter (pure)
\* _census_get after the request: the first row of the JSON array is the
\* header, the others are the data
CensusFrame(resp) == Frame(resp.header, resp.data)

\* STATE_FIPS + county.fillna("") + county subdivision, of one row
GeoidOf(r) ==
    IF r["county subdivision"] = None THEN None
    ELSE Some(STATE_FIPS
              \o (IF r["county"] = None THEN "" ELSE r["county"][1])
              \o r["county subdivision"][1])

\* df[v] = pd.to_numeric(df[v], errors="coerce") for every v of indicators
CastColumns(df, indicators) ==
    Frame(df.cols,
          [i \in 1..Len(df.rows) |->
              [c \in df.cols |->
                  IF c \in indicators THEN ToNumeric(df.rows[i][c]) ELSE df.rows[i][c]]])

\* what fetch_acs_profile and fetch_acs_detailed do with the response
AcsFrame(resp, indicators) ==
    LET df == CensusFrame(resp)
        withCounty == IF "county" \notin df.cols
                      THEN WithColumn(df, "county", LAMBDA r : None)
                      ELSE df
    IN CastColumns(WithColumn(withCounty, "GEOID", GeoidOf), indicators)

\* variant: the left join taken from the detailed sub-fetch
MergeAcsFramesSwapped(p, d) == Merge(Project(d, {"GEOID"} \cup ACS_VARS_DETAILED), p, "GEOID")

\* prof.merge(detl[["GEOID"] + list(ACS_VARS_DETAILED.keys())], on="GEOID", how="left")
MergeAcsFrames(p, d) == Merge(p, Project(d, {"GEOID"} \cup ACS_VARS_DETAILED), "GEOID")

\* ------------------------------------------------ annotation adapter (pure)
PolicyCols == {"town", "url", "title", "tags"}

FallbackLinks ==
    Frame(PolicyCols, <<
        [town |-> Some(<<"B", "u", "r", "l", "i", "n", "g", "t", "o", "n">>),
         url |-> Some("https://www.burlingtonvt.gov/157/Community-Economic-Development-Office-CE"),
         title |-> Some("Community & Economic Development Office (CEDO)"),
         tags |-> Some("strategic-plan,housing,workforce")],
        [town |-> Some(<<"M", "o", "n", "t", "p", "e", "l", "i", "e", "r">>),
         url |-> Some("https://www.montpelier-vt.org/602/Economic-Development"),
         title |-> Some("City Economic Development (links & plan)"),
         tags |-> Some("strategic-plan,grants,regional")],
        [town |-> Some(<<"R", "u", "t", "l", "a", "n", "d">>),
         url |-> Some("https://www.rutlandvtbusiness.com/"),
         title |-> Some("Rutland Redevelopment Authority (RRA)"),
         tags |-> Some("redevelopment,tif,small-business")],
        [town |-> Some(<<"S", "o", "u", "t", "h", " ", "B", "u", "r", "l", "i", "n", "g", "t", "o", "n">>),
         url |-> Some("https://www.southburlingtonvt.gov/595/Economic-Development-Strategic-Plan"),
         title |-> Some("Economic Development Strategic Plan"),
         tags |-> Some("strategic-plan,engagement")],
        [town |-> Some(<<"E", "s", "s", "e", "x">>),
         url |-> Some("https://www.essexvt.gov/1469/ECONOMIC-DEVELOPMENT-STUDY"),
         title |-> Some("Economic Development Study"),
         tags |-> Some("study,priorities")] >>)

\* the body of load_policy_links; file is None when the path does not exist and
\* Some(frame read by pd.read_csv) when it does
PolicyFrame(file) ==
    LET df == IF file # None
              THEN Frame(file[1].cols \cup PolicyCols,
                       [i \in 1..Len(file[1].rows) |->
                           [c \in file[1].cols \cup PolicyCols |->
                               IF c \in file[1].cols THEN file[1].rows[i][c] ELSE None]])
              ELSE FallbackLinks
    IN WithColumn(df, "town_clean", LAMBDA r : Some(PolTownClean(r["town"])))

\* ------------------------------------------------------- join engine (pure)
\* variant: .all() in place of .any()
UseGeoidPathAll(g) ==
    "GEOID" \in g.cols /\ g.rows # <<>> /\ \A i \in 1..Len(g.rows) : g.rows[i]["GEOID"] # None

\* "GEOID" in gdf.columns and gdf["GEOID"].notna().any()
UseGeoidPath(g) ==
    "GEOID" \in g.cols /\ \E i \in 1..Len(g.rows) : g.rows[i]["GEOID"] # None

\* acs_temp: acs with town_clean derived from NAME
AcsTemp(a) == WithColumn(a, "town_clean", LAMBDA r : AcsTownClean(r["NAME"]))

\* joined, before the policy links are attached
JoinFrames(g, a) ==
    IF UseGeoidPath(g)
    THEN Merge(g, a, "GEOID")
    ELSE Merge(g, AcsTemp(a), "town_clean")

PolicyJoinCols == {"town_clean", "url", "title", "tags"}

\* joined.merge(pol[["town_clean", "url", "title", "tags"]], on="town_clean", how="left")
AttachPolicy(j, p) == Merge(j, Project(p, PolicyJoinCols), "town_clean")

\* --------------------------------------------------- presentation (pure)
Metrics == {"DP03_0009PE", "B19013_001E", "DP02_0068PE", "DP03_0119PE"}
DefaultMetric == "DP03_0009PE"

\* id_field of the choropleth
IdField(m) == IF UseGeoidPath(m) THEN "GEOID" ELSE "town_clean"

\* the columns table_cols selects from joined
TableCols ==
    {"NAME", "DP03_0009PE", "B19013_001E", "DP02_0068PE", "DP03_0119PE", "title", "url"}

\* ------------------------------------------- what the services can return
\* the elements of pool at the positions in S, in the pool's order
Pick(pool, S) ==
    LET idx == SelectSeq([i \in 1..Len(pool) |-> i], LAMBDA i : i \in S)
    IN [j \in 1..Len(idx) |-> pool[idx[j]]]

UpTo(n, k) == {S \in SUBSET (1..n) : Cardinality(S) <= k}

\* GeoJSON features of the boundary service: properties under the attribute
\* names the layer happens to use, and a geometry (None when missing)
FeaturePool == <<
    [properties |-> [TOWNNAME |-> Some(<<"B", "u", "r", "l", "i", "n", "g", "t", "o", "n">>)],
     geometry |-> Some(1)],
    [properties |-> [TOWNNAME |-> Some(<<"M", "o", "n", "t", "p", "e", "l", "i", "e", "r">>)],
     geometry |-> Some(2)],
    [properties |-> [NAME |-> Some(<<" ", " ", "B", "U", "R", "L", "I", "N", "G", "T", "O", "N", " ">>),
                     GEOID |-> Some("5000710675")],
     geometry |-> Some(3)],
    [properties |-> [TOWNNAME |-> None, TOWN |-> Some(<<"E", "s", "s", "e", "x">>),
                     GEOID |-> Some("5000724175")],
     geometry |-> Some(4)],
    [properties |-> [TOWNNAME |-> Some(<<"S", "t", "o", "w", "e">>), GEOID |-> None],
     geometry |-> Some(5)],
    [properties |-> [TOWNNAME |-> Some(<<"R", "u", "t", "l", "a", "n", "d">>)],
     geometry |-> None] >>

ProfHeader == ACS_VARS_PROFILE \cup {"NAME", "place", "state", "county", "county subdivision"}
DetlHeader == ACS_VARS_DETAILED \cup {"NAME", "state", "county", "county subdivision"}

ProfRow(name, county, cousub, v1, v2, v3) ==
    [c \in ProfHeader |->
        CASE c = "NAME" -> Some(name)
          [] c = "place" -> None
          [] c = "state" -> Some(STATE_FIPS)
          [] c = "county" -> county
          [] c = "county subdivision" -> Some(cousub)
          [] c = "DP03_0009PE" -> v1
          [] c = "DP02_0068PE" -> v2
          [] c = "DP03_0119PE" -> v3]

DetlRow(name, county, cousub, v) ==
    [c \in DetlHeader |->
        CASE c = "NAME" -> Some(name)
          [] c = "state" -> Some(STATE_FIPS)
          [] c = "county" -> county
          [] c = "county subdivision" -> Some(cousub)
          [] c = "B19013_001E" -> v]

\* the null sentinel of the statistics service (an estimate that could not be
\* computed), as it arrives in the JSON
NullSentinel == <<"-", "6", "6", "6", "6", "6", "6", "6", "6", "6">>

ProfPool == <<
    ProfRow(<<"B", "u", "r", "l", "i", "n", "g", "t", "o", "n", " ", "c", "i", "t", "y", ",", " ", "C", "h", "i", "t", "t", "e", "n", "d", "e", "n", " ", "C", "o", "u", "n", "t", "y", ",", " ", "V", "e", "r", "m", "o", "n", "t">>,
            Some("007"), "10675", Some(<<"5", ".", "2">>), Some(<<"5", "2">>), Some(<<>>)),
    ProfRow(<<"B", "u", "r", "l", "i", "n", "g", "t", "o", "n", " ", "t", "o", "w", "n", ",", " ", "V", "e", "r", "m", "o", "n", "t">>,
            Some("007"), "10675", Some(<<"4", ".", "0">>), Some(<<"N", "/", "A">>), Some(NullSentinel)),
    ProfRow(<<"M", "o", "n", "t", "p", "e", "l", "i", "e", "r", " ", "c", "i", "t", "y", ",", " ", "W", "a", "s", "h", "i", "n", "g", "t", "o", "n", " ", "C", "o", "u", "n", "t", "y", ",", " ", "V", "e", "r", "m", "o", "n", "t">>,
            None, "46000", None, Some(<<"1", "7", ".", "3">>), Some(<<"0">>)),
    ProfRow(<<"E", "s", "s", "e", "x", " ", "t", "o", "w", "n", ",", " ", "C", "h", "i", "t", "t", "e", "n", "d", "e", "n", " ", "C", "o", "u", "n", "t", "y", ",", " ", "V", "e", "r", "m", "o", "n", "t">>,
            Some("007"), "24175", Some(<<"3", ".", "1">>), Some(<<"(", "X", ")">>), Some(<<"1", "0", ".", "5">>)) >>

DetlPool == <<
    DetlRow(<<"B", "u", "r", "l", "i", "n", "g", "t", "o", "n", " ", "c", "i", "t", "y", ",", " ", "C", "h", "i", "t", "t", "e", "n", "d", "e", "n", " ", "C", "o", "u", "n", "t", "y", ",", " ", "V", "e", "r", "m", "o", "n", "t">>,
            Some("007"), "10675", Some(<<"6", "1", "0", "0", "0">>)),
    DetlRow(<<"R", "u", "t", "l", "a", "n", "d", " ", "c", "i", "t", "y", ",", " ", "R", "u", "t", "l", "a", "n", "d", " ", "C", "o", "u", "n", "t", "y", ",", " ", "V", "e", "r", "m", "o", "n", "t">>,
            Some("021"), "61225", Some(NullSentinel)),
    DetlRow(<<"E", "s", "s", "e", "x", " ", "t", "o", "w", "n", ",", " ", "C", "h", "i", "t", "t", "e", "n", "d", "e", "n", " ", "C", "o", "u", "n", "t", "y", ",", " ", "V", "e", "r", "m", "o", "n", "t">>,
            Some("007"), "24175", None) >>

\* rows of a policy_links.csv that has no tags column
AnnCols == {"town", "url", "title"}
AnnPool == <<
    [town |-> Some(<<"B", "u", "r", "l", "i", "n", "g", "t", "o", "n">>), url |-> Some("https://example.org/a"), title |-> Some("Plan A")],
    [town |-> Some(<<" ", "b", "u", "r", "l", "i", "n", "g", "t", "o", "n", " ">>), url |-> Some("https://example.org/b"), title |-> None] >>

Response(header, pool, S) == [header |-> header, data |-> Pick(pool, S)]

\* the state of the outside world: what the boundary service and, per year, the
\* two statistics endpoints answer, and the policy_links.csv file (None: no file)
WideWorlds ==
    {[features |-> Pick(FeaturePool, F),
      prof |-> [y \in ACCEPTABLE_YEARS |-> Response(ProfHeader, ProfPool, P)],
      detl |-> [y \in ACCEPTABLE_YEARS |-> Response(DetlHeader, DetlPool, D)],
      file |-> file] :
        F \in UpTo(Len(FeaturePool), MaxRegions),
        P \in UpTo(Len(ProfPool), MaxProfRows),
        D \in UpTo(Len(DetlPool), MaxDetlRows),
        file \in {None} \cup {Some(Frame(AnnCols, Pick(AnnPool, A))) :
                                 A \in UpTo(Len(AnnPool), MaxAnnRows)}}

\* a response of an older endpoint: no county column
WithoutCounty(resp) ==
    [header |-> resp.header \ {"county"},
     data |-> [i \in 1..Len(resp.data) |->
                  [c \in resp.header \ {"county"} |-> resp.data[i][c]]]]

NarrowWorlds ==
    {[features |-> Pick(FeaturePool, {1, 5}),
      prof |-> [y \in ACCEPTABLE_YEARS |->
                  IF y = DEFAULT_ACS_YEAR THEN Response(ProfHeader, ProfPool, {1})
                  ELSE WithoutCounty(Response(ProfHeader, ProfPool, {3}))],
      detl |-> [y \in ACCEPTABLE_YEARS |->
                  IF y = DEFAULT_ACS_YEAR THEN Response(DetlHeader, DetlPool, {1})
                  ELSE Response(DetlHeader, DetlPool, {2})],
      file |-> None],
     [features |-> Pick(FeaturePool, {2, 3}),
      prof |-> [y \in ACCEPTABLE_YEARS |->
                  IF y = DEFAULT_ACS_YEAR THEN Response(ProfHeader, ProfPool, {2, 4})
                  ELSE Response(ProfHeader, ProfPool, {})],
      detl |-> [y \in ACCEPTABLE_YEARS |->
                  IF y = DEFAULT_ACS_YEAR THEN Response(DetlHeader, DetlPool, {3})
                  ELSE Response(DetlHeader, DetlPool, {1})],
      file |-> Some(Frame(AnnCols, Pick(AnnPool, {1})))]}

\* ------------------------------------------------------------------ state
VARIABLES
    world,       \* what the services and the file system hold now
    now,         \* the clock, in seconds
    cache,       \* st.cache_data: per function and arguments, the stored result
    pc,          \* the statement the script run is at
    runs,        \* script runs started so far
    acs_year,    \* the sidebar's year
    metric_var,  \* the sidebar's metric
    gdf, prof, detl, acs, joined, pol,   \* the script's variables, None while unset
    shown,       \* what the page shows of this run: the map, the table
    error,       \* the exception that ended the run, "" when none
    trace,       \* the steps this run has completed, in order
    fetched,     \* history: per function and arguments, the last result its body gave
    lastCall,    \* history: the last call of a cached function in this run
    nz           \* the key normaliser applied to one name (SpecNormalize only)

vars == <<world, now, cache, pc, runs, acs_year, metric_var, gdf, prof, detl, acs,
          joined, pol, shown, error, trace, fetched, lastCall, nz>>

locals == <<gdf, prof, detl, acs, joined, pol>>

\* ------------------------------------------------------------ st.cache_data
BoundariesKey == <<"fetch_vcgi_town_boundaries", <<>>>>
PolicyKey == <<"load_policy_links", <<>>>>
ProfileKey(y) == <<"fetch_acs_profile", <<y>>>>
DetailedKey(y) == <<"fetch_acs_detailed", <<y>>>>

Keys ==
    {BoundariesKey, PolicyKey}
        \cup {ProfileKey(y) : y \in ACCEPTABLE_YEARS}
        \cup {DetailedKey(y) : y \in ACCEPTABLE_YEARS}

\* variant: no ttl
CacheValidForever(entry, t) == entry # None

\* ttl=60*60: a stored result is served while it is less than TTL seconds old
CacheValid(entry, t) == entry # None /\ t - entry[1].ts < TTL

\* the ways a call of a cached function can go: the stored result without
\* running the body, or the body run, which gives its result or, when it does a
\* request that can fail, raises
Outcomes(k, result, canFail) ==
    IF CacheValid(cache[k], now)
    THEN {[ran |-> FALSE, ok |-> TRUE, value |-> cache[k][1].value]}
    ELSE {[ran |-> TRUE, ok |-> TRUE, value |-> result]}
             \cup (IF canFail THEN {[ran |-> TRUE, ok |-> FALSE, value |-> None]} ELSE {})

\* the cache after the call: a result the body gave is stored with the time
Called(k, o) ==
    /\ cache' = IF o.ran /\ o.ok
                THEN [cache EXCEPT ![k] = Some([value |-> o.value, ts |-> now])]
                ELSE cache
    /\ fetched' = IF o.ran /\ o.ok
                  THEN [fetched EXCEPT ![k] = Some([value |-> o.value, ts |-> now])]
                  ELSE fetched
    /\ lastCall' = Some([key |-> k, at |-> now, ran |-> o.ran, ok |-> o.ok,
                         value |-> o.value, prior |-> fetched[k]])

\* an exception nothing catches: the script run ends there
Raise(e) == pc' = "halted" /\ error' = e /\ trace' = trace

Step(name, next) == pc' = next /\ error' = error /\ trace' = Append(trace, name)

\* --------------------------------------------------------- the script run
\* gdf = fetch_vcgi_town_boundaries()
FetchBoundaries ==
    /\ pc = "boundaries"
    /\ \E o \in Outcomes(BoundariesKey, Some(BuildGdf(world.features)), TRUE) :
           /\ Called(BoundariesKey, o)
           /\ IF o.ok
              THEN gdf' = o.value /\ Step("boundaries", "profile")
              ELSE gdf' = gdf /\ Raise("HTTPError")
    /\ UNCHANGED <<world, now, runs, acs_year, metric_var, prof, detl, acs, joined,
                   pol, shown, nz>>

\* variant: the error of the request caught, an empty table in its place
FetchProfileSwallow ==
    /\ pc = "profile"
    /\ \E o \in Outcomes(ProfileKey(acs_year),
                         Some(AcsFrame(world.prof[acs_year], ACS_VARS_PROFILE)), TRUE) :
           /\ Called(ProfileKey(acs_year), o)
           /\ prof' = IF o.ok THEN o.value ELSE Some(Frame(ProfHeader \cup {"GEOID"}, <<>>))
           /\ Step("profile", "detailed")
    /\ UNCHANGED <<world, now, runs, acs_year, metric_var, gdf, detl, acs, joined,
                   pol, shown, nz>>

\* prof = fetch_acs_profile(acs_year)
FetchProfile ==
    /\ pc = "profile"
    /\ \E o \in Outcomes(ProfileKey(acs_year),
                         Some(AcsFrame(world.prof[acs_year], ACS_VARS_PROFILE)), TRUE) :
           /\ Called(ProfileKey(acs_year), o)
           /\ IF o.ok
              THEN prof' = o.value /\ Step("profile", "detailed")
              ELSE prof' = prof /\ Raise("HTTPError")
    /\ UNCHANGED <<world, now, runs, acs_year, metric_var, gdf, detl, acs, joined,
                   pol, shown, nz>>

\* detl = fetch_acs_detailed(acs_year)
FetchDetailed ==
    /\ pc = "detailed"
    /\ \E o \in Outcomes(DetailedKey(acs_year),
                         Some(AcsFrame(world.detl[acs_year], ACS_VARS_DETAILED)), TRUE) :
           /\ Called(DetailedKey(acs_year), o)
           /\ IF o.ok
              THEN detl' = o.value /\ Step("detailed", "acs_merge")
              ELSE detl' = detl /\ Raise("HTTPError")
    /\ UNCHANGED <<world, now, runs, acs_year, metric_var, gdf, prof, acs, joined,
                   pol, shown, nz>>

\* acs = prof.merge(detl[...], on="GEOID", how="left")
MergeAcs ==
    /\ pc = "acs_merge"
    /\ acs' = Some(MergeAcsFrames(prof[1], detl[1]))
    /\ Step("acs_merge", "join")
    /\ UNCHANGED <<world, now, cache, runs, acs_year, metric_var, gdf, prof, detl,
                   joined, pol, shown, fetched, lastCall, nz>>

\* joined = gdf.merge(acs, ...) by GEOID, or by town_clean
Join ==
    /\ pc = "join"
    /\ joined' = Some(JoinFrames(gdf[1], acs[1]))
    /\ Step("join", "annotations")
    /\ UNCHANGED <<world, now, cache, runs, acs_year, metric_var, gdf, prof, detl,
                   acs, pol, shown, fetched, lastCall, nz>>

\* pol = load_policy_links()
LoadPolicy ==
    /\ pc = "annotations"
    /\ \E o \in Outcomes(PolicyKey, Some(PolicyFrame(world.file)), FALSE) :
           /\ Called(PolicyKey, o)
           /\ pol' = o.value
           /\ Step("annotations", "policy_merge")
    /\ UNCHANGED <<world, now, runs, acs_year, metric_var, gdf, prof, detl, acs,
                   joined, shown, nz>>

\* joined = joined.merge(pol[[...]], on="town_clean", how="left")
MergePolicy ==
    /\ pc = "policy_merge"
    /\ joined' = Some(AttachPolicy(joined[1], pol[1]))
    /\ Step("policy_merge", "map")
    /\ UNCHANGED <<world, now, cache, runs, acs_year, metric_var, gdf, prof, detl,
                   acs, pol, shown, fetched, lastCall, nz>>

\* choropleth_df = map_df[[id_field, metric_var]] ... st_folium(m, ...)
RenderMap ==
    /\ pc = "map"
    /\ IF HasColumns(joined[1], {IdField(joined[1]), metric_var})
       THEN shown' = [shown EXCEPT !.map = TRUE] /\ Step("map", "table")
       ELSE shown' = shown /\ Raise("KeyError")
    /\ UNCHANGED <<world, now, cache, runs, acs_year, metric_var, locals, fetched,
                   lastCall, nz>>

\* tidy = joined[[c for _, c in table_cols]] ... st.dataframe(...)
RenderTable ==
    /\ pc = "table"
    /\ IF HasColumns(joined[1], TableCols)
       THEN shown' = [shown EXCEPT !.table = TRUE] /\ Step("table", "done")
       ELSE shown' = shown /\ Raise("KeyError")
    /\ UNCHANGED <<world, now, cache, runs, acs_year, metric_var, locals, fetched,
                   lastCall, nz>>

\* -------------------------------------------------------- the environment
\* a widget interaction: Streamlit runs the script again from the top, with the
\* sidebar's values; the cache outlives the run
Rerun ==
    /\ pc \in {"done", "halted"}
    /\ runs < MaxRuns
    /\ runs' = runs + 1
    /\ \E y \in ACCEPTABLE_YEARS, m \in Metrics :
           /\ y >= DEFAULT_ACS_YEAR - MaxYearsBack
           /\ acs_year' = y
           /\ metric_var' = m
    /\ pc' = "boundaries"
    /\ error' = ""
    /\ trace' = <<>>
    /\ shown' = [map |-> FALSE, table |-> FALSE]
    /\ lastCall' = None
    /\ gdf' = None /\ prof' = None /\ detl' = None
    /\ acs' = None /\ joined' = None /\ pol' = None
    /\ UNCHANGED <<world, now, cache, fetched, nz>>

\* time passes between two runs
Tick ==
    /\ pc \in {"done", "halted"}
    /\ now + TickSeconds <= MaxTicks * TickSeconds
    /\ now' = now + TickSeconds
    /\ UNCHANGED <<world, cache, pc, runs, acs_year, metric_var, locals, shown,
                   error, trace, fetched, lastCall, nz>>

\* between two runs the services publish other data, and policy_links.csv is
\* put into the app folder or taken away
ServiceUpdate ==
    /\ pc \in {"done", "halted"}
    /\ world' \in NarrowWorlds \ {world}
    /\ UNCHANGED <<now, cache, pc, runs, acs_year, metric_var, locals, shown,
                   error, trace, fetched, lastCall, nz>>

\* ------------------------------------------------------ the key normaliser
\* the pieces the names of SpecNormalize are put together from
NameParts ==
    { <<"V">>, <<"e">>, <<" ">>, <<",">>, <<",", " ">>, <<"\n">>,
      <<" ", "t", "o", "w", "n">>, <<" ", "T", "o", "w", "n">> }

RECURSIVE NamesOf(_)
NamesOf(n) ==
    IF n = 0 THEN {<<>>}
    ELSE NamesOf(n - 1) \cup {s \o q : s \in NamesOf(n - 1), q \in NameParts}

\* the join key of a name: as the statistics side derives it from NAME, and as
\* the boundary side derives it from the display name
Normalize(side, x) ==
    IF side = "statistics"
    THEN AcsTownClean(Some(x))[1]
    ELSE GdfTownClean(Some(x), None, None)

NormalizeOnce ==
    /\ nz.stage = 1
    /\ nz' = [nz EXCEPT !.stage = 2, !.once = Normalize(nz.side, nz.x)]
    /\ UNCHANGED <<world, now, cache, pc, runs, acs_year, metric_var, locals, shown,
                   error, trace, fetched, lastCall>>

NormalizeTwice ==
    /\ nz.stage = 2
    /\ nz' = [nz EXCEPT !.stage = 3, !.twice = Normalize(nz.side, nz.once)]
    /\ UNCHANGED <<world, now, cache, pc, runs, acs_year, metric_var, locals, shown,
                   error, trace, fetched, lastCall>>

\* --------------------------------------------------------- specifications
NzOff == [stage |-> 0, side |-> "", x |-> <<>>, once |-> <<>>, twice |-> <<>>]

Start(worlds) ==
    /\ world \in worlds
    /\ now = 0
    /\ cache = [k \in Keys |-> None]
    /\ fetched = [k \in Keys |-> None]
    /\ lastCall = None
    /\ pc = "boundaries"
    /\ runs = 1
    /\ acs_year = DEFAULT_ACS_YEAR
    /\ metric_var = DefaultMetric
    /\ gdf = None /\ prof = None /\ detl = None
    /\ acs = None /\ joined = None /\ pol = None
    /\ shown = [map |-> FALSE, table |-> FALSE]
    /\ error = ""
    /\ trace = <<>>
    /\ nz = NzOff

Init == Start(NarrowWorlds)

InitRun == Start(WideWorlds)

\* one script run
NextRun ==
    \/ FetchBoundaries
    \/ FetchProfile
    \/ FetchDetailed
    \/ MergeAcs
    \/ Join
    \/ LoadPolicy
    \/ MergePolicy
    \/ RenderMap
    \/ RenderTable

\* the session: script runs, and between them time and the outside world
Next ==
    \/ FetchBoundaries
    \/ FetchProfile
    \/ FetchDetailed
    \/ MergeAcs
    \/ Join
    \/ LoadPolicy
    \/ MergePolicy
    \/ RenderMap
    \/ RenderTable
    \/ Rerun
    \/ Tick
    \/ ServiceUpdate

Spec == Init /\ [][Next]_vars

SpecRun == InitRun /\ [][NextRun]_vars

\* no script runs: the normaliser alone, on every name of at most MaxParts pieces
InitNormalize ==
    /\ world = CHOOSE w \in NarrowWorlds : w.file = None
    /\ now = 0
    /\ cache = [k \in Keys |-> None]
    /\ fetched = [k \in Keys |-> None]
    /\ lastCall = None
    /\ pc = "off"
    /\ runs = 0
    /\ acs_year = DEFAULT_ACS_YEAR
    /\ metric_var = DefaultMetric
    /\ gdf = None /\ prof = None /\ detl = None
    /\ acs = None /\ joined = None /\ pol = None
    /\ shown = [map |-> FALSE, table |-> FALSE]
    /\ error = ""
    /\ trace = <<>>
    /\ nz \in {[stage |-> 1, side |-> s, x |-> x, once |-> <<>>, twice |-> <<>>] :
                  s \in {"statistics", "boundary"}, x \in NamesOf(MaxParts)}

NextNormalize ==
    \/ NormalizeOnce
    \/ NormalizeTwice

SpecNormalize == InitNormalize /\ [][NextNormalize]_vars

\* ------------------------------------------------------------ the claims
InTrace(s) == \E i \in 1..Len(trace) : trace[i] = s

Idx(df) == 1..Len(df.rows)

\* the rows of the joined frame that stand for the region with geometry geo
RowsOfRegion(j, geo) == {i \in Idx(j) : j.rows[i]["geometry"] = geo}

\* the joined row carries the indicator values of the statistics row a
HasStatsOf(row, a) == \A v \in Metrics : row[v] = a[v]
NoStats(row) == \A v \in Metrics : row[v] = None

\* C1: after the two merges the unified record set has exactly one record per
\* region, whatever the statistics and the annotations are.
C1_OneRecordPerRegion ==
    InTrace("policy_merge") =>
        /\ Len(joined[1].rows) = Len(gdf[1].rows)
        /\ \A i \in Idx(gdf[1]) :
               Cardinality(RowsOfRegion(joined[1], gdf[1].rows[i]["geometry"])) = 1

\* C2: a call of a cached function less than one hour after its result was
\* fetched returns that result and does not run the body (no request); a call
\* with no result that recent runs the body; the result served is the one
\* fetched for the same function and arguments.
C2_CacheWindow ==
    lastCall # None =>
        LET c == lastCall[1]
            within == c.prior # None /\ c.at - c.prior[1].ts < 3600
        IN /\ within => ~c.ran /\ c.ok /\ c.value = c.prior[1].value
           /\ ~within => c.ran

\* C2, reached: a re-run is served the stored profile table although the service
\* now answers with other data
C2_StaleHit ==
    /\ lastCall # None
    /\ lastCall[1].key = ProfileKey(acs_year)
    /\ ~lastCall[1].ran
    /\ lastCall[1].value # Some(AcsFrame(world.prof[acs_year], ACS_VARS_PROFILE))

\* what the claim counts as a value the service reports as missing: JSON null,
\* the empty text, the null sentinel, and text with a character no number has
IsMissingRaw(raw) ==
    \/ raw = None
    \/ raw[1] = <<>>
    \/ raw[1] = NullSentinel
    \/ \E i \in 1..Len(raw[1]) :
           ~IsDigit(raw[1][i]) /\ raw[1][i] \notin {"-", "+", "."}

StoredAsClaimed(resp, df, indicators) ==
    \A i \in 1..Len(resp.data) : \A v \in indicators :
        IF IsMissingRaw(resp.data[i][v])
        THEN df.rows[i][v] = None
        ELSE df.rows[i][v] # None

\* C3: every value the service reports as missing (empty, non-numeric, null,
\* null sentinel) is stored as null, every numeric text as a number.
C3_MissingStoredAsNull ==
    /\ InTrace("profile") =>
           StoredAsClaimed(world.prof[acs_year], prof[1], ACS_VARS_PROFILE)
    /\ InTrace("detailed") =>
           StoredAsClaimed(world.detl[acs_year], detl[1], ACS_VARS_DETAILED)

\* C4: the key derivation of either side, applied to its own output, gives the
\* same key again.
C4_NormalizeIdempotent == nz.stage = 3 => nz.twice = nz.once

RECURSIVE StripRight(_)
StripRight(s) ==
    IF s # <<>> /\ IsSpace(s[Len(s)]) THEN StripRight(SubSeq(s, 1, Len(s) - 1)) ELSE s

\* the claim's key of a statistics NAME, stated without the regular expression:
\* the text before the first comma that white space follows, less a closing
\* administrative word and the white space before that word, in lower case;
\* the whole NAME in lower case when there is no such comma (or a line break
\* stands before it)
ClaimedStatsKey(name) ==
    LET commas == {j \in 1..Len(name) : CommaSpaceAt(name, j)}
        first == CHOOSE j \in commas : \A k \in commas : j <= k
        head == SubSeq(name, 1, first - 1)
        ends == {w \in SuffixWords :
                    /\ Len(head) > Len(w)
                    /\ SubSeq(head, Len(head) - Len(w) + 1, Len(head)) = w
                    /\ IsSpace(head[Len(head) - Len(w)])}
        word == CHOOSE w \in ends : TRUE
        place == IF ends = {} THEN head
                 ELSE StripRight(SubSeq(head, 1, Len(head) - Len(word)))
    IN IF commas = {} \/ \E i \in 1..Len(place) : place[i] = "\n"
       THEN StrLower(name)
       ELSE StrLower(place)

\* the claim's key of a region: its display name, trimmed, in lower case
ClaimedRegionKey(g) ==
    StrLower(StrStrip(AsStr(FirstNotNull(g["TOWNNAME"], g["TOWN"], g["NAME"]))))

NameMatch(g, a) == a["NAME"] # None /\ ClaimedRegionKey(g) = ClaimedStatsKey(a["NAME"][1])

Burlington == <<"B", "u", "r", "l", "i", "n", "g", "t", "o", "n">>
Montpelier == <<"M", "o", "n", "t", "p", "e", "l", "i", "e", "r">>

\* the end-to-end scenario of C5: regions Burlington and Montpelier, and the
\* one statistics record of ProfPool[1], "Burlington city, Chittenden County, Vermont"
C5_Scenario ==
    /\ world.features = Pick(FeaturePool, {1, 2})
    /\ world.prof[acs_year].data = <<ProfPool[1]>>

C5_ScenarioResult ==
    /\ Len(joined[1].rows) = 2
    /\ \E i, k \in Idx(joined[1]) :
           /\ joined[1].rows[i]["TOWNNAME"] = Some(Burlington)
           /\ joined[1].rows[i]["DP03_0009PE"] = Some([mant |-> 52, exp |-> 1])
           /\ joined[1].rows[i]["DP02_0068PE"] = Some([mant |-> 52, exp |-> 0])
           /\ joined[1].rows[k]["TOWNNAME"] = Some(Montpelier)
           /\ NoStats(joined[1].rows[k])

\* C5: on the name-join path a region whose key equals the key of a statistics
\* record gets that record's indicator values, a region with no such record
\* appears with null indicators; so in the Burlington and Montpelier scenario.
C5_NameJoin ==
    (pc = "annotations" /\ ~UseGeoidPath(gdf[1])) =>
        /\ \A i \in Idx(gdf[1]) :
               LET g == gdf[1].rows[i]
                   mine == RowsOfRegion(joined[1], g["geometry"])
               IN /\ mine # {}
                  /\ \A n \in Idx(acs[1]) :
                         NameMatch(g, acs[1].rows[n]) =>
                             \E m \in mine : HasStatsOf(joined[1].rows[m], acs[1].rows[n])
                  /\ (\A n \in Idx(acs[1]) : ~NameMatch(g, acs[1].rows[n])) =>
                         \A m \in mine : NoStats(joined[1].rows[m])
        /\ C5_Scenario => C5_ScenarioResult

\* C5, reached: the scenario, joined by name
C5_BurlingtonMatched ==
    /\ pc = "annotations"
    /\ ~UseGeoidPath(gdf[1])
    /\ C5_Scenario
    /\ C5_ScenarioResult

\* the order in which the script does its steps
RunOrder ==
    <<"boundaries", "profile", "detailed", "acs_merge", "join", "annotations",
      "policy_merge", "map", "table">>

IsPrefix(s, r) == Len(s) <= Len(r) /\ \A i \in 1..Len(s) : s[i] = r[i]

\* a request failed: the run has ended there with the error, nothing of a later
\* step exists and neither the map nor the table is shown
HaltedAtFailedFetch ==
    (lastCall # None /\ ~lastCall[1].ok) =>
        /\ pc = "halted"
        /\ error = "HTTPError"
        /\ shown = [map |-> FALSE, table |-> FALSE]
        /\ acs = None /\ joined = None /\ pol = None
        /\ detl = None
        /\ lastCall[1].key # DetailedKey(acs_year) => prof = None
        /\ lastCall[1].key = BoundariesKey => gdf = None

\* loading the policy links never ends the run: no run halts at that step
AnnotationsNeverHalt == pc = "halted" => Len(trace) # 5

\* C6, as claimed: a failed fetch halts the run, an absent annotation file does
\* not, and the steps run in the order boundaries, statistics, annotations,
\* join, render, so that no merge of the join runs before the annotations are
\* loaded.
C6_ClaimedOrder ==
    /\ HaltedAtFailedFetch
    /\ AnnotationsNeverHalt
    /\ \A i \in 1..Len(trace) :
           trace[i] \in {"join", "policy_merge"} =>
               \E k \in 1..(i - 1) : trace[k] = "annotations"

\* C6, amended: a failed fetch halts the run, an absent annotation file does
\* not, and the steps run in the order boundaries, profile, detailed, merge of
\* the two, region-to-statistics merge, annotations, policy-link merge, map,
\* table.
C6_HaltsOnFetchError ==
    /\ HaltedAtFailedFetch
    /\ AnnotationsNeverHalt
    /\ IsPrefix(trace, RunOrder)

\* C6, reached: the detailed sub-fetch failed after two fetches that succeeded
C6_DetailedFailed ==
    /\ pc = "halted"
    /\ lastCall # None
    /\ lastCall[1].key = DetailedKey(acs_year)
    /\ ~lastCall[1].ok
    /\ trace = <<"boundaries", "profile">>
    /\ gdf # None /\ prof # None

\* the fixed built-in set, by name and by key
FallbackTowns ==
    { <<"B", "u", "r", "l", "i", "n", "g", "t", "o", "n">>,
      <<"M", "o", "n", "t", "p", "e", "l", "i", "e", "r">>,
      <<"R", "u", "t", "l", "a", "n", "d">>,
      <<"S", "o", "u", "t", "h", " ", "B", "u", "r", "l", "i", "n", "g", "t", "o", "n">>,
      <<"E", "s", "s", "e", "x">> }

FallbackKeys ==
    { <<"b", "u", "r", "l", "i", "n", "g", "t", "o", "n">>,
      <<"m", "o", "n", "t", "p", "e", "l", "i", "e", "r">>,
      <<"r", "u", "t", "l", "a", "n", "d">>,
      <<"s", "o", "u", "t", "h", " ", "b", "u", "r", "l", "i", "n", "g", "t", "o", "n">>,
      <<"e", "s", "s", "e", "x">> }

Annotated(row) == row["url"] # None /\ row["title"] # None /\ row["tags"] # None
Unannotated(row) == row["url"] = None /\ row["title"] = None /\ row["tags"] = None

\* pol is the built-in set, and the joined regions carry its links exactly
\* where their key is the key of one of its entries
FallbackUsed ==
    /\ Len(pol[1].rows) = 5
    /\ {pol[1].rows[i]["town"] : i \in Idx(pol[1])} = {Some(n) : n \in FallbackTowns}
    /\ pc \in {"map", "table"} =>
           \A i \in Idx(joined[1]) :
               IF joined[1].rows[i]["town_clean"][1] \in FallbackKeys
               THEN Annotated(joined[1].rows[i])
               ELSE Unannotated(joined[1].rows[i])

AfterLoadPolicy == pc \in {"policy_merge", "map", "table"}

GeoidsOf(df) == {df.rows[i]["GEOID"] : i \in Idx(df)}

\* every profile row is in acs, with the detailed indicator of its code or null
ProfileRowsKept ==
    \A i \in Idx(prof[1]) :
        LET p == prof[1].rows[i]
            ds == {k \in Idx(detl[1]) : detl[1].rows[k]["GEOID"] = p["GEOID"]}
        IN \E n \in Idx(acs[1]) :
               /\ \A c \in prof[1].cols : acs[1].rows[n][c] = p[c]
               /\ IF ds = {}
                  THEN acs[1].rows[n]["B19013_001E"] = None
                  ELSE \E k \in ds :
                           acs[1].rows[n]["B19013_001E"] = detl[1].rows[k]["B19013_001E"]

\* C8, as claimed: a region missing from either sub-fetch is still in the
\* merged statistics table.
C8_EitherSideKept ==
    pc = "join" =>
        /\ ProfileRowsKept
        /\ GeoidsOf(detl[1]) \subseteq GeoidsOf(acs[1])

\* C8, amended: the merge is a left join from the profile sub-fetch: a region
\* of the profile that is missing from the detailed sub-fetch is in the merged
\* table with a null detailed indicator, and the merged table has no region
\* that the profile lacks.
C8_LeftJoinFromProfile ==
    pc = "join" =>
        /\ ProfileRowsKept
        /\ GeoidsOf(acs[1]) = GeoidsOf(prof[1])

\* C8, reached: a code only the profile has and a code only the detailed
\* sub-fetch has
C8_MissingOnBothSides ==
    /\ pc = "join"
    /\ \E i \in Idx(prof[1]) : prof[1].rows[i]["GEOID"] \notin GeoidsOf(detl[1])
    /\ \E k \in Idx(detl[1]) : detl[1].rows[k]["GEOID"] \notin GeoidsOf(prof[1])
    /\ \E n \in Idx(acs[1]) : acs[1].rows[n]["B19013_001E"] = None

CodeMatch(g, a) == g["GEOID"] = a["GEOID"]

\* the region g is joined to the statistics rows that Match gives it: each in
\* one of its rows, and null indicators when there is none
JoinedBy(g, Match(_, _)) ==
    LET mine == RowsOfRegion(joined[1], g["geometry"])
        stats == {n \in Idx(acs[1]) : Match(g, acs[1].rows[n])}
    IN /\ mine # {}
       /\ \A n \in stats : \E m \in mine : HasStatsOf(joined[1].rows[m], acs[1].rows[n])
       /\ \A m \in mine :
              IF stats = {} THEN NoStats(joined[1].rows[m])
              ELSE \E n \in stats : HasStatsOf(joined[1].rows[m], acs[1].rows[n])

\* C9, as claimed: each region by itself: by its code when it has one, by its
\* name key when it has none.
C9_PathPerRegion ==
    pc = "annotations" =>
        \A i \in Idx(gdf[1]) :
            IF gdf[1].rows[i]["GEOID"] # None
            THEN JoinedBy(gdf[1].rows[i], CodeMatch)
            ELSE JoinedBy(gdf[1].rows[i], NameMatch)

\* C9, amended: the path is chosen once for the boundary fetch: when at least
\* one region has a code, every region is matched by code, and a region with
\* no code gets null indicators; when no region has a code, every region is
\* matched by its name key.
C9_PathPerFetch ==
    pc = "annotations" =>
        \A i \in Idx(gdf[1]) :
            IF \E k \in Idx(gdf[1]) : gdf[1].rows[k]["GEOID"] # None
            THEN JoinedBy(gdf[1].rows[i], CodeMatch)
            ELSE JoinedBy(gdf[1].rows[i], NameMatch)

\* C9, reached: a region without a code whose name key has statistics, beside
\* a region matched by its code, and the first has null indicators
C9_NamedRegionUnmatched ==
    /\ pc = "annotations"
    /\ \E i, k \in Idx(gdf[1]) :
           /\ gdf[1].rows[i]["GEOID"] = None
           /\ gdf[1].rows[k]["GEOID"] # None
           /\ \E n \in Idx(acs[1]) : NameMatch(gdf[1].rows[i], acs[1].rows[n])
           /\ \A m \in RowsOfRegion(joined[1], gdf[1].rows[i]["geometry"]) :
                  NoStats(joined[1].rows[m])
           /\ \E n \in Idx(acs[1]) : CodeMatch(gdf[1].rows[k], acs[1].rows[n])

\* C10: on both join paths the joined record set has every column the map and
\* the table select by name.
C10_SelectedColumnsExist ==
    InTrace("policy_merge") =>
        /\ HasColumns(joined[1], {IdField(joined[1]), metric_var})
        /\ HasColumns(joined[1], TableCols)

====
